---- MODULE Spec2Model ----
(***************************************************************************)
(* A model of axotly: the assertion engine (domain/assertion.rs), the      *)
(* execution of one test case (domain/test_case.rs), the HTTP invoker      *)
(* (domain/http_request.rs), the bounded-concurrency executor              *)
(* (executor.rs), the runner (runner.rs) and the concurrency option of the *)
(* command line (cli/args.rs).                                             *)
(*                                                                         *)
(* Encodings.  Option<T> is a sequence of length 0 (None) or 1 (Some(x)).  *)
(* A Value is a record with the three payload fields of the enum, the      *)
(* unused ones at a fixed default, so that derived PartialEq is record     *)
(* equality.  A path is the sequence of its dot-separated identifiers and  *)
(* PathStr gives back the string the parser stored.  Wall-clock durations  *)
(* and response headers are not modelled.                                  *)
(***************************************************************************)
EXTENDS Integers, Sequences, FiniteSets, TLC

VARIABLES
    fs,          \* the input path: its kind and, for a directory, the walked entries
    max_concurrency, \* N, as handed to Runner::run_path / Executor::run_tests
    rpc,         \* position of Runner::run_path
    walk_idx,    \* index of the next directory entry the walk visits
    all_tests,   \* Vec<(PathBuf, Vec<TestCase>)> of run_path
    all_results, \* Vec<TestCase> of run_path
    render_idx,  \* index of the next result run_path hands to renderer.test
    rlog,        \* the calls the renderer has received, in order
    ret,         \* the value run_path returned: <<>> while running
    epc,         \* position of Executor::run_tests
    test_cases,  \* the Vec<TestCase> given to run_tests
    handles,     \* spawned tasks, in spawn order: [pc, permit, tc]
    permits,     \* permits available in the semaphore
    join_idx,    \* index of the next handle run_tests awaits
    results,     \* Vec<TestCase> run_tests is building
    started,     \* instrumentation: number of TestCase::run invocations begun
    ut_case,     \* single-case harness: the test case
    ut_outcome,  \* single-case harness: the outcome of send()
    ut_pc,       \* single-case harness: "ready" | "done"
    call_fn,     \* function harness: the function called
    call_args,   \* function harness: its arguments
    call_ret     \* function harness: what it returned: <<>> before the call

vars == <<fs, max_concurrency, rpc, walk_idx, all_tests, all_results, render_idx, rlog, ret,
          epc, test_cases, handles, permits, join_idx, results, started,
          ut_case, ut_outcome, ut_pc, call_fn, call_args, call_ret>>

runner_vars == <<fs, rpc, walk_idx, all_tests, all_results, render_idx, rlog, ret>>
exec_vars == <<epc, test_cases, handles, permits, join_idx, results, started>>
ut_vars == <<ut_case, ut_outcome, ut_pc>>
call_vars == <<call_fn, call_args, call_ret>>

-----------------------------------------------------------------------------
(* Option<T> *)
None == <<>>
Some(x) == <<x>>
IsSome(o) == Len(o) = 1
IsNone(o) == Len(o) = 0
Unwrap(o) == o[1]

-----------------------------------------------------------------------------
(* domain/assertion.rs : Value, Operator, Assertion, AssertionFailure *)

VString(s) == [t |-> "String", s |-> s, n |-> 0, b |-> FALSE]
VNumber(n) == [t |-> "Number", s |-> "", n |-> n, b |-> FALSE]
VBool(b) == [t |-> "Bool", s |-> "", n |-> 0, b |-> b]

Operators == {"Eq", "Ne", "Gt", "Lt", "Gte", "Lte"}

NoValue == VBool(FALSE)

Binary(path, op, value) ==
    [kind |-> "Binary", path |-> path, op |-> op, value |-> value,
     values |-> <<>>, min |-> NoValue, max |-> NoValue]
In(path, values) ==
    [kind |-> "In", path |-> path, op |-> "Eq", value |-> NoValue,
     values |-> values, min |-> NoValue, max |-> NoValue]
Between(path, min, max) ==
    [kind |-> "Between", path |-> path, op |-> "Eq", value |-> NoValue,
     values |-> <<>>, min |-> min, max |-> max]
Exists(path) ==
    [kind |-> "Exists", path |-> path, op |-> "Eq", value |-> NoValue,
     values |-> <<>>, min |-> NoValue, max |-> NoValue]
Unary(path) ==
    [kind |-> "Unary", path |-> path, op |-> "Eq", value |-> NoValue,
     values |-> <<>>, min |-> NoValue, max |-> NoValue]

AssertionFailure(path, expected, actual, message) ==
    [path |-> path, expected |-> expected, actual |-> actual, message |-> message]

(* The string of a path: its identifiers joined by dots. *)
RECURSIVE PathStr(_)
PathStr(p) ==
    IF Len(p) = 0 THEN ""
    ELSE IF Len(p) = 1 THEN p[1]
    ELSE p[1] \o "." \o PathStr(Tail(p))

(* impl fmt::Display for Value *)
ValueToString(v) ==
    CASE v.t = "String" -> "\"" \o v.s \o "\""
      [] v.t = "Number" -> ToString(v.n)
      [] v.t = "Bool" -> IF v.b THEN "true" ELSE "false"

(* #[derive(Debug)] for Value, and the Debug form of a Vec<Value> *)
ValueDebug(v) ==
    CASE v.t = "String" -> "String(\"" \o v.s \o "\")"
      [] v.t = "Number" -> "Number(" \o ToString(v.n) \o ")"
      [] v.t = "Bool" -> "Bool(" \o (IF v.b THEN "true" ELSE "false") \o ")"

RECURSIVE ValuesDebugTail(_)
ValuesDebugTail(vs) ==
    IF vs = <<>> THEN "" ELSE ", " \o ValueDebug(Head(vs)) \o ValuesDebugTail(Tail(vs))

ValuesDebug(vs) ==
    IF vs = <<>> THEN "[]"
    ELSE "[" \o ValueDebug(Head(vs)) \o ValuesDebugTail(Tail(vs)) \o "]"

-----------------------------------------------------------------------------
(* serde_json, on the body texts of the model.                             *)
(* A JSON number is serde_json's N: PosInt(u64), NegInt(i64) or Float.  Its *)
(* magnitude is three base-10^7 limbs <<a, b, c>> = a*10^14 + b*10^7 + c,  *)
(* so that values above i64::MAX can be written down.                      *)

JObject(m) == [t |-> "Object", m |-> m]
JString(s) == [t |-> "String", s |-> s]
JPosInt(limbs) == [t |-> "Number", repr |-> "PosInt", limbs |-> limbs]
JNegInt(limbs) == [t |-> "Number", repr |-> "NegInt", limbs |-> limbs]
JFloat == [t |-> "Number", repr |-> "Float", limbs |-> <<0, 0, 0>>]
JBool(b) == [t |-> "Bool", b |-> b]
JNull == [t |-> "Null"]
JArray == [t |-> "Array"]
JSmall(n) == IF n >= 0 THEN JPosInt(<<0, 0, n>>) ELSE JNegInt(<<0, 0, -n>>)

I64MaxLimbs == <<92233, 7203685, 4775807>>

LimbsLe(x, y) ==
    \/ x[1] < y[1]
    \/ x[1] = y[1] /\ x[2] < y[2]
    \/ x[1] = y[1] /\ x[2] = y[2] /\ x[3] <= y[3]

LimbsToInt(x) == x[1] * 10000000 * 10000000 + x[2] * 10000000 + x[3]

(* serde_json::Number::as_i64 *)
AsI64(num) ==
    CASE num.repr = "PosInt" ->
            IF LimbsLe(num.limbs, I64MaxLimbs) THEN Some(LimbsToInt(num.limbs)) ELSE None
      [] num.repr = "NegInt" -> Some(0 - LimbsToInt(num.limbs))
      [] num.repr = "Float" -> None

(* serde_json::Value::get(&str): object-key lookup, None on a non-object *)
JsonGet(json, key) ==
    IF json.t = "Object" /\ key \in DOMAIN json.m THEN Some(json.m[key]) ELSE None

BodyAlice == "{\"user\":{\"name\":\"alice\",\"age\":30}}"
BodyFlags == "{\"ok\":true,\"off\":false,\"id\":7,\"name\":\"x\"}"
BodyOdd == "{\"f\":1.5,\"whole\":1.0,\"big\":18446744073709551615,\"nil\":null,\"arr\":[1],\"neg\":-3}"
BodyEmptyObj == "{}"
BodyText == "not found"
BodyScalar == "42"

(* serde_json::from_str on each body text of the model: None for a parse error *)
JsonFromStr(s) ==
    CASE s = BodyAlice ->
            Some(JObject([user |-> JObject([name |-> JString("alice"), age |-> JSmall(30)])]))
      [] s = BodyFlags ->
            Some(JObject([ok |-> JBool(TRUE), off |-> JBool(FALSE), id |-> JSmall(7),
                          name |-> JString("x")]))
      [] s = BodyOdd ->
            Some(JObject([f |-> JFloat, whole |-> JFloat, big |-> JPosInt(<<184467, 4407370, 9551615>>),
                          nil |-> JNull, arr |-> JArray, neg |-> JSmall(-3)]))
      [] s = BodyEmptyObj -> Some(JObject(<<>>))
      [] s = BodyScalar -> Some(JSmall(42))
      [] OTHER -> None

-----------------------------------------------------------------------------
(* resolve_path, compare, Assertion::check *)

RECURSIVE Descend(_, _)
Descend(current, keys) ==
    IF keys = <<>> THEN Some(current)
    ELSE LET next == JsonGet(current, Head(keys))
         IN IF IsNone(next) THEN None ELSE Descend(Unwrap(next), Tail(keys))

(* Coerce, were a number that is not an i64 read as 0 (unwrap_or) *)
CoerceLossy(node) ==
    CASE node.t = "String" -> Some(VString(node.s))
      [] node.t = "Number" ->
            LET i == AsI64(node) IN IF IsNone(i) THEN Some(VNumber(0)) ELSE Some(VNumber(Unwrap(i)))
      [] node.t = "Bool" -> Some(VBool(node.b))
      [] OTHER -> None

Coerce(node) ==
    CASE node.t = "String" -> Some(VString(node.s))
      [] node.t = "Number" ->
            LET i == AsI64(node) IN IF IsNone(i) THEN None ELSE Some(VNumber(Unwrap(i)))
      [] node.t = "Bool" -> Some(VBool(node.b))
      [] OTHER -> None

resolve_path(response, path) ==
    IF path = <<"status">> THEN Some(VNumber(response.status))
    ELSE IF path = <<"body">> THEN
        IF IsSome(response.body) THEN Some(VString(Unwrap(response.body))) ELSE None
    ELSE IF Len(path) >= 2 /\ Head(path) = "body" THEN
        IF IsNone(response.body) THEN None
        ELSE LET json == JsonFromStr(Unwrap(response.body))
             IN IF IsNone(json) THEN None
                ELSE LET current == Descend(Unwrap(json), Tail(path))
                     IN IF IsNone(current) THEN None ELSE Coerce(Unwrap(current))
    ELSE None

(* compare, were the ordering arms to read the integer of any variant *)
compareUntyped(op, actual, expected) ==
    CASE op = "Eq" -> actual = expected
      [] op = "Ne" -> actual # expected
      [] op = "Gt" -> actual.n > expected.n
      [] op = "Lt" -> actual.n < expected.n
      [] op = "Gte" -> actual.n >= expected.n
      [] op = "Lte" -> actual.n <= expected.n
      [] OTHER -> FALSE

compare(op, actual, expected) ==
    CASE op = "Eq" -> actual = expected
      [] op = "Ne" -> actual # expected
      [] op = "Gt" /\ actual.t = "Number" /\ expected.t = "Number" -> actual.n > expected.n
      [] op = "Lt" /\ actual.t = "Number" /\ expected.t = "Number" -> actual.n < expected.n
      [] op = "Gte" /\ actual.t = "Number" /\ expected.t = "Number" -> actual.n >= expected.n
      [] op = "Lte" /\ actual.t = "Number" /\ expected.t = "Number" -> actual.n <= expected.n
      [] OTHER -> FALSE

(* Result<(), AssertionFailure>: Ok(()) is None, Err(f) is Some(f). *)
Ok == None
Err(f) == Some(f)

(* CheckBinary, were a missing path to satisfy Ne *)
CheckBinaryMissingNe(a, response) ==
    LET r == resolve_path(response, a.path)
    IN IF IsNone(r)
       THEN IF a.op = "Ne" THEN Ok
            ELSE Err(AssertionFailure(PathStr(a.path), Some(ValueToString(a.value)), None,
                     "Path '" \o PathStr(a.path) \o "' not found"))
       ELSE IF ~compare(a.op, Unwrap(r), a.value)
       THEN Err(AssertionFailure(PathStr(a.path), Some(ValueToString(a.value)),
                Some(ValueToString(Unwrap(r))),
                "Expected " \o PathStr(a.path) \o " " \o a.op \o " " \o ValueToString(a.value)))
       ELSE Ok

CheckBinary(a, response) ==
    LET r == resolve_path(response, a.path)
    IN IF IsNone(r)
       THEN Err(AssertionFailure(PathStr(a.path), Some(ValueToString(a.value)), None,
                "Path '" \o PathStr(a.path) \o "' not found"))
       ELSE IF ~compare(a.op, Unwrap(r), a.value)
       THEN Err(AssertionFailure(PathStr(a.path), Some(ValueToString(a.value)),
                Some(ValueToString(Unwrap(r))),
                "Expected " \o PathStr(a.path) \o " " \o a.op \o " " \o ValueToString(a.value)))
       ELSE Ok

CheckExists(a, response) ==
    IF IsNone(resolve_path(response, a.path))
    THEN Err(AssertionFailure(PathStr(a.path), Some("exists"), None,
             "Expected '" \o PathStr(a.path) \o "' to exist"))
    ELSE Ok

(* CheckUnary, were any boolean to satisfy it *)
CheckUnaryAnyBool(a, response) ==
    LET r == resolve_path(response, a.path)
    IN IF IsNone(r)
       THEN Err(AssertionFailure(PathStr(a.path), Some("true"), None,
                "Path '" \o PathStr(a.path) \o "' not found"))
       ELSE IF Unwrap(r).t # "Bool"
       THEN Err(AssertionFailure(PathStr(a.path), Some("true"),
                Some(ValueToString(Unwrap(r))),
                "Expected '" \o PathStr(a.path) \o "' to be true"))
       ELSE Ok

CheckUnary(a, response) ==
    LET r == resolve_path(response, a.path)
    IN IF IsNone(r)
       THEN Err(AssertionFailure(PathStr(a.path), Some("true"), None,
                "Path '" \o PathStr(a.path) \o "' not found"))
       ELSE IF Unwrap(r) # VBool(TRUE)
       THEN Err(AssertionFailure(PathStr(a.path), Some("true"),
                Some(ValueToString(Unwrap(r))),
                "Expected '" \o PathStr(a.path) \o "' to be true"))
       ELSE Ok

(* CheckIn, were only the first value of the list looked at *)
CheckInFirstOnly(a, response) ==
    LET r == resolve_path(response, a.path)
    IN IF IsNone(r)
       THEN Err(AssertionFailure(PathStr(a.path), Some(ValuesDebug(a.values)), None,
                "Path '" \o PathStr(a.path) \o "' not found"))
       ELSE IF ~(a.values # <<>> /\ a.values[1] = Unwrap(r))
       THEN Err(AssertionFailure(PathStr(a.path), Some(ValuesDebug(a.values)),
                Some(ValueToString(Unwrap(r))),
                "Expected '" \o PathStr(a.path) \o "' to be in list"))
       ELSE Ok

CheckIn(a, response) ==
    LET r == resolve_path(response, a.path)
    IN IF IsNone(r)
       THEN Err(AssertionFailure(PathStr(a.path), Some(ValuesDebug(a.values)), None,
                "Path '" \o PathStr(a.path) \o "' not found"))
       ELSE IF ~(\E i \in 1..Len(a.values) : a.values[i] = Unwrap(r))
       THEN Err(AssertionFailure(PathStr(a.path), Some(ValuesDebug(a.values)),
                Some(ValueToString(Unwrap(r))),
                "Expected '" \o PathStr(a.path) \o "' to be in list"))
       ELSE Ok

(* CheckBetween, were the upper bound exclusive *)
CheckBetweenHalfOpen(a, response) ==
    LET r == resolve_path(response, a.path)
        expected == "between " \o ValueToString(a.min) \o " and " \o ValueToString(a.max)
    IN IF IsNone(r)
       THEN Err(AssertionFailure(PathStr(a.path), Some(expected), None,
                "Path '" \o PathStr(a.path) \o "' not found"))
       ELSE IF /\ Unwrap(r).t = "Number" /\ a.min.t = "Number" /\ a.max.t = "Number"
               /\ Unwrap(r).n >= a.min.n /\ Unwrap(r).n < a.max.n
       THEN Ok
       ELSE Err(AssertionFailure(PathStr(a.path), Some(expected),
                Some(ValueToString(Unwrap(r))), "Value not in range"))

CheckBetween(a, response) ==
    LET r == resolve_path(response, a.path)
        expected == "between " \o ValueToString(a.min) \o " and " \o ValueToString(a.max)
    IN IF IsNone(r)
       THEN Err(AssertionFailure(PathStr(a.path), Some(expected), None,
                "Path '" \o PathStr(a.path) \o "' not found"))
       ELSE IF /\ Unwrap(r).t = "Number" /\ a.min.t = "Number" /\ a.max.t = "Number"
               /\ Unwrap(r).n >= a.min.n /\ Unwrap(r).n <= a.max.n
       THEN Ok
       ELSE Err(AssertionFailure(PathStr(a.path), Some(expected),
                Some(ValueToString(Unwrap(r))), "Value not in range"))

check(a, response) ==
    CASE a.kind = "Binary" -> CheckBinary(a, response)
      [] a.kind = "Exists" -> CheckExists(a, response)
      [] a.kind = "Unary" -> CheckUnary(a, response)
      [] a.kind = "In" -> CheckIn(a, response)
      [] a.kind = "Between" -> CheckBetween(a, response)

-----------------------------------------------------------------------------
(* domain/http_request.rs : HttpRequest, HttpResponse, send *)

HttpRequest(method, url) == [method |-> method, url |-> url, headers |-> <<>>, body |-> None]

HttpResponse(request, status, body) == [request |-> request, status |-> status, body |-> body]

(* str::to_uppercase, on the method tokens of the model *)
to_uppercase(s) ==
    CASE s = "get" -> "GET"
      [] s = "fetch" -> "FETCH"
      [] OTHER -> s

(* HttpRequest::new, which the single-request mode of main calls; the      *)
(* parser builds its requests with a struct literal instead                *)
HttpRequestNew(method, url) == HttpRequest(to_uppercase(method), url)

MethodWhitelist == {"GET", "POST", "PUT", "PATCH", "DELETE", "HEAD", "OPTIONS"}

(* anyhow::Result<HttpResponse> *)
SendOk(response) == [ok |-> TRUE, response |-> Some(response), error |-> ""]
SendErr(error) == [ok |-> FALSE, response |-> None, error |-> error]

(* The network: what the server behind a URL may answer (status, body text) *)
(* and the transport errors a request to it may end in.                      *)
AnyStatus == {200, 201, 404}
AnyBody == {BodyAlice, BodyFlags, BodyOdd, BodyEmptyObj, BodyText, BodyScalar}
TransportErrors == {"error sending request", "error decoding response body"}

ServerAnswers(url) ==
    CASE url = "http://h/any" -> AnyStatus \X AnyBody
      [] url = "http://h/ok" -> {<<200, BodyFlags>>}
      [] url = "http://h/flaky" -> {<<200, BodyFlags>>, <<404, BodyText>>}
      [] OTHER -> {}

ServerErrors(url) ==
    CASE url = "http://h/any" -> TransportErrors
      [] url = "http://h/ok" -> {}
      [] url = "http://h/flaky" -> {"error sending request"}
      [] OTHER -> {"error sending request"}

(* HttpRequest::call_request followed by the rest of HttpRequest::send: every *)
(* value send() may return for this request.                                 *)
SendOutcomes(request) ==
    IF request.method \notin MethodWhitelist
    THEN {SendErr("Invalid HTTP method: " \o request.method)}
    ELSE {SendErr(e) : e \in ServerErrors(request.url)}
         \cup {SendOk(HttpResponse(Some(request), a[1], Some(a[2]))) :
                  a \in ServerAnswers(request.url)}

-----------------------------------------------------------------------------
(* domain/test_case.rs : TestResult, TestCase, TestCase::run *)

Passed == [tag |-> "Passed"]
Failed(errors) == [tag |-> "Failed", errors |-> errors]

TestCase(name, request, response, assertions, result) ==
    [name |-> name, request |-> request, response |-> response,
     assertions |-> assertions, result |-> result]

(* CheckInto, were the errors reset by each assertion instead of pushed to *)
CheckIntoOverwrite(errors, assertion, response) ==
    LET r == check(assertion, response)
    IN IF IsSome(r) THEN <<Unwrap(r)>> ELSE <<>>

(* the body of `for assertion in &self.assertions`, on the errors so far *)
CheckInto(errors, assertion, response) ==
    LET r == check(assertion, response)
    IN IF IsSome(r) THEN Append(errors, Unwrap(r)) ELSE errors

(* CheckAll, were the loop to stop at the first failing assertion *)
RECURSIVE CheckAllShort(_, _, _, _)
CheckAllShort(assertions, i, response, errors) ==
    IF i > Len(assertions) \/ errors # <<>> THEN errors
    ELSE CheckAllShort(assertions, i + 1, response,
                       CheckInto(errors, assertions[i], response))

(* the for loop, from assertion i on *)
RECURSIVE CheckAll(_, _, _, _)
CheckAll(assertions, i, response, errors) ==
    IF i > Len(assertions) THEN errors
    ELSE CheckAll(assertions, i + 1, response, CheckInto(errors, assertions[i], response))

(* RequestFailure, were the error's own text replaced by a fixed message *)
RequestFailureGeneric(error) == AssertionFailure("request", None, None, "request failed")

(* the synthetic failure of the transport-error path *)
RequestFailure(error) == AssertionFailure("request", None, None, error)

(* Run, were the result Failed whether or not an assertion failed *)
RunAlwaysFailed(self, sent) ==
    IF ~sent.ok
    THEN [self EXCEPT !.result = Some(Failed(<<RequestFailure(sent.error)>>))]
    ELSE LET response == Unwrap(sent.response)
             errors == CheckAll(self.assertions, 1, response, <<>>)
         IN [self EXCEPT !.response = Some(response), !.result = Some(Failed(errors))]

(* Run, were the transport-error path to return without setting the result *)
RunNoResultOnError(self, sent) ==
    IF ~sent.ok
    THEN self
    ELSE LET response == Unwrap(sent.response)
             errors == CheckAll(self.assertions, 1, response, <<>>)
         IN [self EXCEPT !.response = Some(response),
                         !.result = IF errors = <<>> THEN Some(Passed)
                                    ELSE Some(Failed(errors))]

(* Run, were a case without a name given its URL for one *)
RunDefaultsName(self, sent) ==
    LET named == [self EXCEPT !.name = IF self.name = None THEN Some(self.request.url)
                                        ELSE self.name]
    IN IF ~sent.ok
       THEN [named EXCEPT !.result = Some(Failed(<<RequestFailure(sent.error)>>))]
       ELSE LET response == Unwrap(sent.response)
                errors == CheckAll(self.assertions, 1, response, <<>>)
            IN [named EXCEPT !.response = Some(response),
                             !.result = IF errors = <<>> THEN Some(Passed)
                                        ELSE Some(Failed(errors))]

(* Run, were the response handed to the assertions but never stored *)
RunStoresNoResponse(self, sent) ==
    IF ~sent.ok
    THEN [self EXCEPT !.result = Some(Failed(<<RequestFailure(sent.error)>>))]
    ELSE LET response == Unwrap(sent.response)
             errors == CheckAll(self.assertions, 1, response, <<>>)
         IN [self EXCEPT !.result = IF errors = <<>> THEN Some(Passed)
                                    ELSE Some(Failed(errors))]

(* TestCase::run on the outcome `sent` of self.request.clone().send().await *)
Run(self, sent) ==
    IF ~sent.ok
    THEN [self EXCEPT !.result = Some(Failed(<<RequestFailure(sent.error)>>))]
    ELSE LET response == Unwrap(sent.response)
             errors == CheckAll(self.assertions, 1, response, <<>>)
         IN [self EXCEPT !.response = Some(response),
                         !.result = IF errors = <<>> THEN Some(Passed)
                                    ELSE Some(Failed(errors))]

-----------------------------------------------------------------------------
(* parser/parser.rs : a file's text is modelled by what the grammar makes   *)
(* of it: whether it matches, and the test blocks it holds.                 *)

Block(name, method, url, assertions) ==
    [name |-> name, method |-> method, url |-> url, assertions |-> assertions]

(* parse_http_request: the method token is copied as written *)
parse_http_request(block) ==
    [method |-> block.method, url |-> block.url, headers |-> <<>>, body |-> None]

parse_test_block(block) ==
    TestCase(block.name, parse_http_request(block), None, block.assertions, None)

(* AxParser::parse_file: Ok(tests) in source order, or Err *)
parse_file(text) ==
    IF ~text.wellformed THEN [ok |-> FALSE, tests |-> <<>>]
    ELSE [ok |-> TRUE, tests |-> [i \in 1..Len(text.blocks) |-> parse_test_block(text.blocks[i])]]

-----------------------------------------------------------------------------
(* Bounds, and the inputs drawn within them *)

MaxAssertions == 2
MaxTests == 3
MaxN == 2
MaxEntries == 2
MaxValues == 2

SeqsUpTo(S, n) == UNION {[1..k -> S] : k \in 0..n}

AssertionPool ==
    { Binary(<<"status">>, "Eq", VNumber(200)),
      Binary(<<"body", "user", "name">>, "Ne", VString("bob")),
      Exists(<<"body", "missing">>),
      Unary(<<"body", "ok">>),
      In(<<"status">>, <<VNumber(200), VNumber(201)>>),
      Between(<<"body", "id">>, VNumber(1), VNumber(9)) }

(* the cases of the single-case specification: any assertion list, a method *)
(* inside and one outside the whitelist                                     *)
(* the method tokens a request line may carry: a verb in either case *)
MethodTokens == {"GET", "get", "FETCH"}

CaseBlocks ==
    { Block(Some("case"), m, "http://h/any", as) :
        m \in MethodTokens, as \in SeqsUpTo(AssertionPool, MaxAssertions) }

(* the blocks of the executor and runner specifications *)
BlockOk == Block(Some("ok"), "GET", "http://h/ok",
                 <<Binary(<<"status">>, "Eq", VNumber(200))>>)
BlockFlaky == Block(None, "POST", "http://h/flaky",
                    <<Binary(<<"status">>, "Lt", VNumber(300)), Unary(<<"body", "ok">>)>>)
BlockBadMethod == Block(Some("bad"), "FETCH", "http://h/ok", <<>>)

ExecBlocks == {BlockOk, BlockFlaky, BlockBadMethod}

-----------------------------------------------------------------------------
(* executor.rs : Executor::run_tests *)

(* A spawned task: where it is, whether it holds a semaphore permit, and the *)
(* test case it owns (after it finished: the case it returned).            *)
Handle(pc, permit, tc) == [pc |-> pc, permit |-> permit, tc |-> tc]

(* line 41-43: the call, Semaphore::new(max_concurrency), the empty handles *)
EnterRunTests(tests) ==
    /\ epc' = "spawn"
    /\ test_cases' = tests
    /\ permits' = max_concurrency
    /\ handles' = <<>>
    /\ join_idx' = 1
    /\ results' = <<>>

(* line 45-55: one iteration of the spawn loop; the task starts out waiting *)
(* on sem.acquire()                                                         *)
Spawn ==
    /\ epc = "spawn"
    /\ Len(handles) < Len(test_cases)
    /\ handles' = Append(handles, Handle("waiting", FALSE, Some(test_cases[Len(handles) + 1])))
    /\ UNCHANGED <<epc, test_cases, permits, join_idx, results, started>>
    /\ UNCHANGED <<max_concurrency, runner_vars, ut_vars, call_vars>>

(* line 55-57: the spawn loop ends, results = Vec::new() *)
SpawnDone ==
    /\ epc = "spawn"
    /\ Len(handles) = Len(test_cases)
    /\ epc' = "join"
    /\ UNCHANGED <<test_cases, handles, permits, join_idx, results, started>>
    /\ UNCHANGED <<max_concurrency, runner_vars, ut_vars, call_vars>>

(* Acquire, were the task not to wait for a permit *)
AcquireNoWait(i) ==
    /\ handles[i].pc = "waiting"
    /\ permits' = permits - 1
    /\ handles' = [handles EXCEPT ![i] = Handle("running", TRUE, handles[i].tc)]
    /\ started' = started + 1
    /\ UNCHANGED <<epc, test_cases, join_idx, results>>
    /\ UNCHANGED <<max_concurrency, runner_vars, ut_vars, call_vars>>

(* Acquire, were each task to take a second permit for its connection *)
AcquireTakesTwo(i) ==
    /\ handles[i].pc = "waiting"
    /\ permits > 1
    /\ permits' = permits - 2
    /\ handles' = [handles EXCEPT ![i] = Handle("running", TRUE, handles[i].tc)]
    /\ started' = started + 1
    /\ UNCHANGED <<epc, test_cases, join_idx, results>>
    /\ UNCHANGED <<max_concurrency, runner_vars, ut_vars, call_vars>>

(* line 49-50: task i gets a permit and enters TestCase::run, which sends *)
Acquire(i) ==
    /\ handles[i].pc = "waiting"
    /\ permits > 0
    /\ permits' = permits - 1
    /\ handles' = [handles EXCEPT ![i] = Handle("running", TRUE, handles[i].tc)]
    /\ started' = started + 1
    /\ UNCHANGED <<epc, test_cases, join_idx, results>>
    /\ UNCHANGED <<max_concurrency, runner_vars, ut_vars, call_vars>>

(* Complete, were the permit given back twice: once by hand, once by drop *)
CompleteReleasesTwice(i) ==
    /\ handles[i].pc = "running"
    /\ \E sent \in SendOutcomes(Unwrap(handles[i].tc).request) :
          handles' = [handles EXCEPT ![i] = Handle("finished", FALSE, Some(Run(Unwrap(handles[i].tc), sent)))]
    /\ permits' = permits + 2
    /\ UNCHANGED <<epc, test_cases, join_idx, results, started>>
    /\ UNCHANGED <<max_concurrency, runner_vars, ut_vars, call_vars>>

(* line 50-52: send() settles, run() evaluates the assertions without       *)
(* suspending and returns, the task ends and drops its permit              *)
Complete(i) ==
    /\ handles[i].pc = "running"
    /\ \E sent \in SendOutcomes(Unwrap(handles[i].tc).request) :
          handles' = [handles EXCEPT ![i] = Handle("finished", FALSE, Some(Run(Unwrap(handles[i].tc), sent)))]
    /\ permits' = permits + 1
    /\ UNCHANGED <<epc, test_cases, join_idx, results, started>>
    /\ UNCHANGED <<max_concurrency, runner_vars, ut_vars, call_vars>>

(* Panic, were the permit of a panicked task never given back *)
PanicKeepsPermit(i) ==
    /\ handles[i].pc = "running"
    /\ handles' = [handles EXCEPT ![i] = Handle("panicked", TRUE, None)]
    /\ UNCHANGED <<epc, test_cases, permits, join_idx, results, started>>
    /\ UNCHANGED <<max_concurrency, runner_vars, ut_vars, call_vars>>

(* Panic, were the permit of a panicked task forgotten instead of dropped *)
PanicLosesPermit(i) ==
    /\ handles[i].pc = "running"
    /\ handles' = [handles EXCEPT ![i] = Handle("panicked", FALSE, None)]
    /\ UNCHANGED <<epc, test_cases, permits, join_idx, results, started>>
    /\ UNCHANGED <<max_concurrency, runner_vars, ut_vars, call_vars>>

(* the task panics inside run(): its test case is lost, the unwinding drops *)
(* the permit                                                               *)
Panic(i) ==
    /\ handles[i].pc = "running"
    /\ handles' = [handles EXCEPT ![i] = Handle("panicked", FALSE, None)]
    /\ permits' = permits + 1
    /\ UNCHANGED <<epc, test_cases, join_idx, results, started>>
    /\ UNCHANGED <<max_concurrency, runner_vars, ut_vars, call_vars>>

(* Join, were a panicked task to end the collection (handle.await?) *)
JoinStopsAtPanic ==
    /\ epc = "join"
    /\ join_idx <= Len(handles)
    /\ handles[join_idx].pc \in {"finished", "panicked"}
    /\ results' = IF handles[join_idx].pc = "finished"
                  THEN Append(results, Unwrap(handles[join_idx].tc))
                  ELSE results
    /\ join_idx' = IF handles[join_idx].pc = "finished" THEN join_idx + 1
                   ELSE Len(handles) + 1
    /\ UNCHANGED <<epc, test_cases, handles, permits, started>>
    /\ UNCHANGED <<max_concurrency, runner_vars, ut_vars, call_vars>>

(* Join, were each case put at the front of the list *)
JoinPrepends ==
    /\ epc = "join"
    /\ join_idx <= Len(handles)
    /\ handles[join_idx].pc \in {"finished", "panicked"}
    /\ results' = IF handles[join_idx].pc = "finished"
                  THEN <<Unwrap(handles[join_idx].tc)>> \o results
                  ELSE results
    /\ join_idx' = join_idx + 1
    /\ UNCHANGED <<epc, test_cases, handles, permits, started>>
    /\ UNCHANGED <<max_concurrency, runner_vars, ut_vars, call_vars>>

(* line 58-62: handle.await on the next handle, in spawn order *)
Join ==
    /\ epc = "join"
    /\ join_idx <= Len(handles)
    /\ handles[join_idx].pc \in {"finished", "panicked"}
    /\ results' = IF handles[join_idx].pc = "finished"
                  THEN Append(results, Unwrap(handles[join_idx].tc))
                  ELSE results
    /\ join_idx' = join_idx + 1
    /\ UNCHANGED <<epc, test_cases, handles, permits, started>>
    /\ UNCHANGED <<max_concurrency, runner_vars, ut_vars, call_vars>>

(* line 64: run_tests returns results *)
ReturnResults ==
    /\ epc = "join"
    /\ join_idx > Len(handles)
    /\ epc' = "returned"
    /\ UNCHANGED <<test_cases, handles, permits, join_idx, results, started>>
    /\ UNCHANGED <<max_concurrency, runner_vars, ut_vars, call_vars>>

ExecNext ==
    \/ Spawn
    \/ SpawnDone
    \/ \E i \in 1..Len(handles) : Acquire(i)
    \/ \E i \in 1..Len(handles) : Complete(i)
    \/ \E i \in 1..Len(handles) : Panic(i)
    \/ Join
    \/ ReturnResults

RunnerIdle ==
    /\ fs = [kind |-> "none", text |-> None, entries |-> <<>>]
    /\ rpc = "idle"
    /\ walk_idx = 0
    /\ all_tests = <<>>
    /\ all_results = <<>>
    /\ render_idx = 0
    /\ rlog = <<>>
    /\ ret = None

ExecIdle ==
    /\ epc = "idle"
    /\ test_cases = <<>>
    /\ handles = <<>>
    /\ permits = 0
    /\ join_idx = 0
    /\ results = <<>>
    /\ started = 0

CaseIdle ==
    /\ ut_case = None
    /\ ut_outcome = None
    /\ ut_pc = "idle"

CallIdle ==
    /\ call_fn = "none"
    /\ call_args = <<>>
    /\ call_ret = None

(* Executor::run_tests called on its own, on any batch of parsed cases *)
ExecInit ==
    /\ max_concurrency \in 1..MaxN
    /\ epc = "spawn"
    /\ test_cases \in SeqsUpTo({parse_test_block(b) : b \in ExecBlocks}, MaxTests)
    /\ permits = max_concurrency
    /\ handles = <<>>
    /\ join_idx = 1
    /\ results = <<>>
    /\ started = 0
    /\ RunnerIdle
    /\ CaseIdle
    /\ CallIdle

SpecExec == ExecInit /\ [][ExecNext]_vars

SpecExecFair == ExecInit /\ [][ExecNext]_vars /\ WF_vars(ExecNext)

(* run_tests called with any N up to one more than the largest batch *)
ExecInitWide ==
    /\ max_concurrency \in 1..(MaxTests + 1)
    /\ epc = "spawn"
    /\ test_cases \in SeqsUpTo({parse_test_block(b) : b \in ExecBlocks}, MaxTests)
    /\ permits = max_concurrency
    /\ handles = <<>>
    /\ join_idx = 1
    /\ results = <<>>
    /\ started = 0
    /\ RunnerIdle
    /\ CaseIdle
    /\ CallIdle

SpecExecWide == ExecInitWide /\ [][ExecNext]_vars

-----------------------------------------------------------------------------
(* TestCase::run called on its own, on one parsed case *)

CaseInit ==
    /\ ut_case \in {Some(parse_test_block(b)) : b \in CaseBlocks}
    /\ ut_outcome = None
    /\ ut_pc = "ready"
    /\ max_concurrency = 1
    /\ RunnerIdle
    /\ ExecIdle
    /\ CallIdle

CaseRun ==
    /\ ut_pc = "ready"
    /\ \E sent \in SendOutcomes(Unwrap(ut_case).request) :
          /\ ut_outcome' = Some(sent)
          /\ ut_case' = Some(Run(Unwrap(ut_case), sent))
    /\ ut_pc' = "done"
    /\ UNCHANGED <<max_concurrency, runner_vars, exec_vars, call_vars>>

CaseNext == CaseRun

SpecCase == CaseInit /\ [][CaseNext]_vars

-----------------------------------------------------------------------------
(* runner.rs : Runner::run_path *)

(* What is found at one path: whether its extension is "ax", whether it   *)
(* is a regular file, whether read_to_string succeeds on it (it never does *)
(* on a directory), and what the grammar makes of its text.                *)
Entry(ax, regular, readable, wellformed, blocks) ==
    [ax |-> ax, regular |-> regular, readable |-> readable,
     text |-> [wellformed |-> wellformed, blocks |-> blocks]]

FileTwo == Entry(TRUE, TRUE, TRUE, TRUE, <<BlockOk, BlockFlaky>>)
FileOne == Entry(TRUE, TRUE, TRUE, TRUE, <<BlockBadMethod>>)
FileEmpty == Entry(TRUE, TRUE, TRUE, TRUE, <<>>)
FileBadSyntax == Entry(TRUE, TRUE, TRUE, FALSE, <<>>)
FileUnreadable == Entry(TRUE, TRUE, FALSE, TRUE, <<>>)
FileOtherExt == Entry(FALSE, TRUE, TRUE, TRUE, <<BlockOk>>)
(* a subdirectory whose name ends in ".ax" *)
DirNamedAx == Entry(TRUE, FALSE, FALSE, TRUE, <<>>)

EntryPool ==
    {FileTwo, FileOne, FileEmpty, FileBadSyntax, FileUnreadable, FileOtherExt, DirNamedAx}

RetOk == Some([ok |-> TRUE, error |-> ""])
RetErr(error) == Some([ok |-> FALSE, error |-> error])

(* Runner::load_tests_from_file *)
load_tests_from_file(entry) ==
    IF ~entry.readable THEN [ok |-> FALSE, error |-> "Failed to read file", tests |-> <<>>]
    ELSE LET parsed == parse_file(entry.text)
         IN IF ~parsed.ok
            THEN [ok |-> FALSE, error |-> "Failed to parse input", tests |-> <<>>]
            ELSE [ok |-> TRUE, error |-> "", tests |-> parsed.tests]

CallStart(total) == [op |-> "start", total |-> total, case |-> None, cases |-> <<>>]
CallTest(test) == [op |-> "test", total |-> 0, case |-> Some(test), cases |-> <<>>]
CallSummary(cases) == [op |-> "summary", total |-> 0, case |-> None, cases |-> cases]

RECURSIVE TotalTests(_)
TotalTests(files) ==
    IF files = <<>> THEN 0 ELSE Len(Head(files).tests) + TotalTests(Tail(files))

(* line 71-73: the path is a file: it is loaded, whatever its extension *)
LoadSingleFile ==
    /\ rpc = "begin"
    /\ fs.kind = "file"
    /\ LET loaded == load_tests_from_file(fs.entries[1])
       IN IF loaded.ok
          THEN /\ all_tests' = Append(all_tests, [file |-> 1, tests |-> loaded.tests])
               /\ rpc' = "loaded"
               /\ ret' = ret
          ELSE /\ all_tests' = all_tests
               /\ rpc' = "done"
               /\ ret' = RetErr(loaded.error)
    /\ UNCHANGED <<fs, walk_idx, all_results, render_idx, rlog>>
    /\ UNCHANGED <<max_concurrency, exec_vars, ut_vars, call_vars>>

(* line 74-75: the path is a directory: the walk begins *)
BeginWalk ==
    /\ rpc = "begin"
    /\ fs.kind = "dir"
    /\ rpc' = "walk"
    /\ walk_idx' = 1
    /\ UNCHANGED <<fs, all_tests, all_results, render_idx, rlog, ret>>
    /\ UNCHANGED <<max_concurrency, exec_vars, ut_vars, call_vars>>

(* line 82-84: the path is neither *)
BailNotFileOrDir ==
    /\ rpc = "begin"
    /\ fs.kind \notin {"file", "dir"}
    /\ rpc' = "done"
    /\ ret' = RetErr("is neither a file nor a folder")
    /\ UNCHANGED <<fs, walk_idx, all_tests, all_results, render_idx, rlog>>
    /\ UNCHANGED <<max_concurrency, exec_vars, ut_vars, call_vars>>

(* WalkEntry, were a file that cannot be loaded skipped instead of fatal *)
WalkEntryLenient ==
    /\ rpc = "walk"
    /\ walk_idx <= Len(fs.entries)
    /\ LET entry == fs.entries[walk_idx]
           loaded == load_tests_from_file(entry)
       IN IF entry.ax /\ loaded.ok
          THEN all_tests' = Append(all_tests, [file |-> walk_idx, tests |-> loaded.tests])
          ELSE all_tests' = all_tests
    /\ walk_idx' = walk_idx + 1
    /\ UNCHANGED <<fs, rpc, ret, all_results, render_idx, rlog>>
    /\ UNCHANGED <<max_concurrency, exec_vars, ut_vars, call_vars>>

(* line 75-81: one entry of the walk *)
WalkEntry ==
    /\ rpc = "walk"
    /\ walk_idx <= Len(fs.entries)
    /\ LET entry == fs.entries[walk_idx]
           loaded == load_tests_from_file(entry)
       IN IF ~entry.ax
          THEN /\ walk_idx' = walk_idx + 1
               /\ UNCHANGED <<all_tests, rpc, ret>>
          ELSE IF loaded.ok
          THEN /\ all_tests' = Append(all_tests, [file |-> walk_idx, tests |-> loaded.tests])
               /\ walk_idx' = walk_idx + 1
               /\ UNCHANGED <<rpc, ret>>
          ELSE /\ rpc' = "done"
               /\ ret' = RetErr(loaded.error)
               /\ UNCHANGED <<all_tests, walk_idx>>
    /\ UNCHANGED <<fs, all_results, render_idx, rlog>>
    /\ UNCHANGED <<max_concurrency, exec_vars, ut_vars, call_vars>>

(* line 81: the walk is over *)
EndWalk ==
    /\ rpc = "walk"
    /\ walk_idx > Len(fs.entries)
    /\ rpc' = "loaded"
    /\ UNCHANGED <<fs, walk_idx, all_tests, all_results, render_idx, rlog, ret>>
    /\ UNCHANGED <<max_concurrency, exec_vars, ut_vars, call_vars>>

(* an empty run reported through the renderer like any other *)
NoTestsFoundRendered ==
    /\ rpc = "loaded"
    /\ all_tests = <<>>
    /\ rlog' = rlog \o <<CallStart(0), CallSummary(<<>>)>>
    /\ rpc' = "done"
    /\ ret' = RetOk
    /\ UNCHANGED <<fs, walk_idx, all_tests, all_results, render_idx>>
    /\ UNCHANGED <<max_concurrency, exec_vars, ut_vars, call_vars>>

(* line 86-89: nothing was loaded *)
NoTestsFound ==
    /\ rpc = "loaded"
    /\ all_tests = <<>>
    /\ rpc' = "done"
    /\ ret' = RetOk
    /\ UNCHANGED <<fs, walk_idx, all_tests, all_results, render_idx, rlog>>
    /\ UNCHANGED <<max_concurrency, exec_vars, ut_vars, call_vars>>

(* line 91-94: renderer.start(total_tests) *)
RenderStart ==
    /\ rpc = "loaded"
    /\ all_tests # <<>>
    /\ rlog' = Append(rlog, CallStart(TotalTests(all_tests)))
    /\ rpc' = "files"
    /\ UNCHANGED <<fs, walk_idx, all_tests, all_results, render_idx, ret>>
    /\ UNCHANGED <<max_concurrency, exec_vars, ut_vars, call_vars>>

(* line 97-99: the next file of the loop: Executor::run_tests is called *)
RunFile ==
    /\ rpc = "files"
    /\ all_tests # <<>>
    /\ EnterRunTests(Head(all_tests).tests)
    /\ all_tests' = Tail(all_tests)
    /\ rpc' = "await"
    /\ UNCHANGED <<fs, walk_idx, all_results, render_idx, rlog, ret>>
    /\ UNCHANGED <<max_concurrency, started, ut_vars, call_vars>>

(* line 99-100: run_tests has returned, the rendering loop begins *)
BeginRender ==
    /\ rpc = "await"
    /\ epc = "returned"
    /\ rpc' = "render"
    /\ render_idx' = 1
    /\ UNCHANGED <<fs, walk_idx, all_tests, all_results, rlog, ret>>
    /\ UNCHANGED <<max_concurrency, exec_vars, ut_vars, call_vars>>

(* RenderTest, were the results handed over from the last to the first *)
RenderTestReversed ==
    /\ rpc = "render"
    /\ render_idx <= Len(results)
    /\ rlog' = Append(rlog, CallTest(results[Len(results) - render_idx + 1]))
    /\ render_idx' = render_idx + 1
    /\ UNCHANGED <<fs, rpc, walk_idx, all_tests, all_results, ret>>
    /\ UNCHANGED <<max_concurrency, exec_vars, ut_vars, call_vars>>

(* line 100-107: renderer.test(test, None) on the next result *)
RenderTest ==
    /\ rpc = "render"
    /\ render_idx <= Len(results)
    /\ rlog' = Append(rlog, CallTest(results[render_idx]))
    /\ render_idx' = render_idx + 1
    /\ UNCHANGED <<fs, rpc, walk_idx, all_tests, all_results, ret>>
    /\ UNCHANGED <<max_concurrency, exec_vars, ut_vars, call_vars>>

(* EndRender, were the results of a file put before those of earlier files *)
EndRenderPrepends ==
    /\ rpc = "render"
    /\ render_idx > Len(results)
    /\ all_results' = results \o all_results
    /\ rpc' = "files"
    /\ render_idx' = 0
    /\ epc' = "idle"
    /\ test_cases' = <<>>
    /\ handles' = <<>>
    /\ permits' = 0
    /\ join_idx' = 0
    /\ results' = <<>>
    /\ UNCHANGED <<fs, walk_idx, all_tests, rlog, ret>>
    /\ UNCHANGED <<max_concurrency, started, ut_vars, call_vars>>

(* a runner that gives up on the first file holding a failed test *)
EndRenderFailFast ==
    /\ rpc = "render"
    /\ render_idx > Len(results)
    /\ all_results' = all_results \o results
    /\ IF \E k \in 1..Len(results) : Unwrap(results[k].result).tag = "Failed"
       THEN rpc' = "done" /\ ret' = RetErr("test failed")
       ELSE rpc' = "files" /\ ret' = ret
    /\ render_idx' = 0
    /\ epc' = "idle"
    /\ test_cases' = <<>>
    /\ handles' = <<>>
    /\ permits' = 0
    /\ join_idx' = 0
    /\ results' = <<>>
    /\ UNCHANGED <<fs, walk_idx, all_tests, rlog>>
    /\ UNCHANGED <<max_concurrency, started, ut_vars, call_vars>>

(* line 108: all_results.extend(results); the executor's locals are gone *)
EndRender ==
    /\ rpc = "render"
    /\ render_idx > Len(results)
    /\ all_results' = all_results \o results
    /\ rpc' = "files"
    /\ render_idx' = 0
    /\ epc' = "idle"
    /\ test_cases' = <<>>
    /\ handles' = <<>>
    /\ permits' = 0
    /\ join_idx' = 0
    /\ results' = <<>>
    /\ UNCHANGED <<fs, walk_idx, all_tests, rlog, ret>>
    /\ UNCHANGED <<max_concurrency, started, ut_vars, call_vars>>

(* line 111-114: renderer.summary(&all_results, &duration); Ok(()) *)
RenderSummary ==
    /\ rpc = "files"
    /\ all_tests = <<>>
    /\ rlog' = Append(rlog, CallSummary(all_results))
    /\ rpc' = "done"
    /\ ret' = RetOk
    /\ UNCHANGED <<fs, walk_idx, all_tests, all_results, render_idx>>
    /\ UNCHANGED <<max_concurrency, exec_vars, ut_vars, call_vars>>

Init ==
    /\ max_concurrency \in 1..MaxN
    /\ fs \in [kind : {"file"}, entries : {<<e>> : e \in {f \in EntryPool : f.regular}}]
            \cup [kind : {"dir"}, entries : SeqsUpTo(EntryPool, MaxEntries)]
            \cup [kind : {"other"}, entries : {<<>>}]
    /\ rpc = "begin"
    /\ walk_idx = 0
    /\ all_tests = <<>>
    /\ all_results = <<>>
    /\ render_idx = 0
    /\ rlog = <<>>
    /\ ret = None
    /\ ExecIdle
    /\ CaseIdle
    /\ CallIdle

Next ==
    \/ LoadSingleFile
    \/ BeginWalk
    \/ BailNotFileOrDir
    \/ WalkEntry
    \/ EndWalk
    \/ NoTestsFound
    \/ RenderStart
    \/ RunFile
    \/ BeginRender
    \/ RenderTest
    \/ EndRender
    \/ RenderSummary
    \/ Spawn
    \/ SpawnDone
    \/ \E i \in 1..Len(handles) : Acquire(i)
    \/ \E i \in 1..Len(handles) : Complete(i)
    \/ \E i \in 1..Len(handles) : Panic(i)
    \/ Join
    \/ ReturnResults

Spec == Init /\ [][Next]_vars

-----------------------------------------------------------------------------
(* cli/args.rs : Cli::concurrently, and main handing it to the runner *)

ConcurrentlyStart == 1
ConcurrentlyEnd == 200

(* RangedI64ValueParser::<usize>::new().range(1..200) on the integer the   *)
(* user wrote: a value outside the half-open range is a usage error        *)
concurrently_value_parser(n) ==
    IF n >= ConcurrentlyStart /\ n < ConcurrentlyEnd
    THEN [ok |-> TRUE, n |-> n]
    ELSE [ok |-> FALSE, n |-> 0]

(* Cli::parse() in main: on an error the process exits and no run is made; *)
(* otherwise args.concurrently is what handle_file_request hands on        *)
main(concurrently) == concurrently_value_parser(concurrently)

CliMargin == 3
CliInputs == (ConcurrentlyStart - CliMargin)..(ConcurrentlyEnd + CliMargin)

-----------------------------------------------------------------------------
(* parser/parser.rs : parse_assertion and the functions under it.          *)
(* A pair of the grammar is a record: its rule, and for an expect          *)
(* expression its path, operator token and value pairs; a value pair has   *)
(* the rule and the text it matched.                                       *)

ValuePair(rule, text) == [rule |-> rule, text |-> text]
ExprPair(rule, path, op, values) ==
    [rule |-> rule, path |-> path, op |-> op, values |-> values]

ParseOk(x) == [ok |-> TRUE, v |-> Some(x)]
ParseErr == [ok |-> FALSE, v |-> None]

(* s[1..s.len() - 1] on the quoted strings of the model *)
Unquote(text) ==
    CASE text = "\"x\"" -> "x"
      [] text = "\"7\"" -> "7"
      [] OTHER -> ""

(* str::parse::<i64> on the number texts of the model: None on overflow *)
str_parse(text) ==
    CASE text = "7" -> Some(7)
      [] text = "200" -> Some(200)
      [] text = "-3" -> Some(0 - 3)
      [] OTHER -> None

parse_value(pair) ==
    CASE pair.rule = "quoted_string" -> ParseOk(VString(Unquote(pair.text)))
      [] pair.rule = "number" ->
            IF IsNone(str_parse(pair.text)) THEN ParseErr
            ELSE ParseOk(VNumber(Unwrap(str_parse(pair.text))))
      [] pair.rule = "boolean" -> ParseOk(VBool(pair.text = "true"))
      [] OTHER -> ParseErr

parse_operator(token) ==
    CASE token = "==" -> ParseOk("Eq")
      [] token = "!=" -> ParseOk("Ne")
      [] token = ">" -> ParseOk("Gt")
      [] token = "<" -> ParseOk("Lt")
      [] token = ">=" -> ParseOk("Gte")
      [] token = "<=" -> ParseOk("Lte")
      [] OTHER -> ParseErr

parse_binary_op(pair) ==
    LET op == parse_operator(pair.op)
        val == parse_value(pair.values[1])
    IN IF ~op.ok \/ ~val.ok THEN ParseErr
       ELSE ParseOk(Binary(pair.path, Unwrap(op.v), Unwrap(val.v)))

parse_in_op(pair) ==
    LET parsed == [i \in 1..Len(pair.values) |-> parse_value(pair.values[i])]
    IN IF \E i \in 1..Len(parsed) : ~parsed[i].ok THEN ParseErr
       ELSE ParseOk(In(pair.path, [i \in 1..Len(parsed) |-> Unwrap(parsed[i].v)]))

parse_between_op(pair) ==
    LET min == parse_value(pair.values[1])
        max == parse_value(pair.values[2])
    IN IF ~min.ok \/ ~max.ok THEN ParseErr
       ELSE ParseOk(Between(pair.path, Unwrap(min.v), Unwrap(max.v)))

parse_exists_op(pair) == ParseOk(Exists(pair.path))

parse_unary_path(pair) == ParseOk(Unary(pair.path))

parse_assertion(pair) ==
    CASE pair.rule = "binary_op" -> parse_binary_op(pair)
      [] pair.rule = "in_op" -> parse_in_op(pair)
      [] pair.rule = "between_op" -> parse_between_op(pair)
      [] pair.rule = "exists_op" -> parse_exists_op(pair)
      [] pair.rule = "unary_path" -> parse_unary_path(pair)
      [] OTHER -> ParseErr

(* the pairs the grammar yields for an expect expression *)
ValuePairs ==
    {ValuePair("quoted_string", "\"x\""), ValuePair("quoted_string", "\"7\""),
     ValuePair("number", "7"), ValuePair("number", "200"), ValuePair("number", "-3"),
     ValuePair("number", "99999999999999999999"),
     ValuePair("boolean", "true"), ValuePair("boolean", "false")}

OperatorTokens == {"==", "!=", ">", "<", ">=", "<="}

PairPaths == {<<"status">>, <<"body", "id">>}

ExprPairs ==
    {ExprPair("binary_op", p, op, <<v>>) :
        p \in PairPaths, op \in OperatorTokens, v \in ValuePairs}
    \cup {ExprPair("in_op", p, "", vs) :
              p \in PairPaths, vs \in SeqsUpTo(ValuePairs, MaxValues) \ {<<>>}}
    \cup {ExprPair("between_op", p, "", <<v[1], v[2]>>) :
              p \in PairPaths, v \in ValuePairs \X ValuePairs}
    \cup {ExprPair("exists_op", p, "", <<>>) : p \in PairPaths}
    \cup {ExprPair("unary_path", p, "", <<>>) : p \in PairPaths}

-----------------------------------------------------------------------------
(* The functions of the assertion engine and the command line, each called *)
(* once on arguments drawn from the pools below.                           *)

StatusPool == {200, 404}
BodyPool == {None} \cup {Some(b) : b \in AnyBody}
(* as the unit tests build them: no back-reference to a request *)
ResponsePool == {HttpResponse(None, st, b) : st \in StatusPool, b \in BodyPool}

PathPool ==
    {<<"status">>, <<"body">>, <<"body", "user", "name">>, <<"body", "user", "age">>,
     <<"body", "user">>, <<"body", "ok">>, <<"body", "off">>, <<"body", "id">>,
     <<"body", "name">>, <<"body", "f">>, <<"body", "whole">>, <<"body", "big">>, <<"body", "nil">>,
     <<"body", "arr">>, <<"body", "neg">>, <<"body", "missing">>, <<"body", "id", "x">>,
     <<"body", "">>, <<"headers">>, <<"status", "code">>, <<"bodyx">>, <<>>}

ValuePool ==
    {VNumber(7), VNumber(200), VNumber(300), VString("7"), VString("x"), VBool(TRUE)}

CheckPaths ==
    {<<"status">>, <<"body">>, <<"body", "id">>, <<"body", "name">>, <<"body", "ok">>,
     <<"body", "off">>, <<"body", "missing">>, <<"body", "user", "name">>}

AssertionsToCheck ==
    {Binary(p, op, v) : p \in CheckPaths, op \in Operators, v \in ValuePool}
    \cup {In(p, vs) : p \in CheckPaths, vs \in SeqsUpTo(ValuePool, MaxValues) \ {<<>>}}
    \cup {Between(p, v[1], v[2]) : p \in CheckPaths, v \in ValuePool \X ValuePool}
    \cup {Exists(p) : p \in CheckPaths}
    \cup {Unary(p) : p \in CheckPaths}

FnCalls ==
    {[fn |-> "main", args |-> <<n>>] : n \in CliInputs}
    \cup {[fn |-> "resolve_path", args |-> <<r, p>>] : r \in ResponsePool, p \in PathPool}
    \cup {[fn |-> "compare", args |-> <<op, a, b>>] :
              op \in Operators, a \in ValuePool, b \in ValuePool}
    \cup {[fn |-> "check", args |-> <<a, r>>] : a \in AssertionsToCheck, r \in ResponsePool}
    \cup {[fn |-> "parse_assertion", args |-> <<pair>>] : pair \in ExprPairs}

FnInit ==
    /\ \E c \in FnCalls : call_fn = c.fn /\ call_args = c.args
    /\ call_ret = None
    /\ max_concurrency = 1
    /\ RunnerIdle
    /\ ExecIdle
    /\ CaseIdle

CallMain ==
    /\ call_fn = "main"
    /\ call_ret = None
    /\ call_ret' = Some(main(call_args[1]))
    /\ UNCHANGED <<call_fn, call_args>>
    /\ UNCHANGED <<max_concurrency, runner_vars, exec_vars, ut_vars>>

CallResolvePath ==
    /\ call_fn = "resolve_path"
    /\ call_ret = None
    /\ call_ret' = Some(resolve_path(call_args[1], call_args[2]))
    /\ UNCHANGED <<call_fn, call_args>>
    /\ UNCHANGED <<max_concurrency, runner_vars, exec_vars, ut_vars>>

CallCompare ==
    /\ call_fn = "compare"
    /\ call_ret = None
    /\ call_ret' = Some(compare(call_args[1], call_args[2], call_args[3]))
    /\ UNCHANGED <<call_fn, call_args>>
    /\ UNCHANGED <<max_concurrency, runner_vars, exec_vars, ut_vars>>

CallCheck ==
    /\ call_fn = "check"
    /\ call_ret = None
    /\ call_ret' = Some(check(call_args[1], call_args[2]))
    /\ UNCHANGED <<call_fn, call_args>>
    /\ UNCHANGED <<max_concurrency, runner_vars, exec_vars, ut_vars>>

CallParseAssertion ==
    /\ call_fn = "parse_assertion"
    /\ call_ret = None
    /\ call_ret' = Some(parse_assertion(call_args[1]))
    /\ UNCHANGED <<call_fn, call_args>>
    /\ UNCHANGED <<max_concurrency, runner_vars, exec_vars, ut_vars>>

FnNext ==
    \/ CallMain
    \/ CallResolvePath
    \/ CallCompare
    \/ CallCheck
    \/ CallParseAssertion

SpecFn == FnInit /\ [][FnNext]_vars

-----------------------------------------------------------------------------
(* Properties of Executor::run_tests *)

Units == 1..Len(handles)
InFlight == {i \in Units : handles[i].pc = "running"}
Waiting == {i \in Units : handles[i].pc = "waiting"}
Finished == {i \in Units : handles[i].pc = "finished"}
Panicked == {i \in Units : handles[i].pc = "panicked"}

(* C1: at most max_concurrency units are inside TestCase::run at once, and *)
(* a unit inside TestCase::run holds a permit.                             *)
C1_InFlightAtMostN ==
    /\ Cardinality(InFlight) <= max_concurrency
    /\ \A i \in InFlight : handles[i].permit
    /\ \A i \in Waiting : ~handles[i].permit

(* the cap binds: N units in flight, another one waiting for a permit *)
C1_Witness ==
    /\ Cardinality(InFlight) = max_concurrency
    /\ permits = 0
    /\ Waiting # {}

AllSettled ==
    /\ Len(handles) = Len(test_cases)
    /\ \A i \in Units : handles[i].pc \in {"finished", "panicked"}

(* C2: run_tests eventually returns, every unit having acquired a permit   *)
(* and settled; it does not return before all dispatched units settled.    *)
C2_RunTestsReturns ==
    /\ <>(epc = "returned" /\ started = Len(test_cases))
    /\ [](epc = "returned" => AllSettled)

(* a batch larger than N has returned: some unit had to wait for a permit *)
C2_Witness ==
    /\ epc = "returned"
    /\ Len(test_cases) > max_concurrency
    /\ started = Len(test_cases)

(* C3: result is None in every case that has not come back from            *)
(* TestCase::run, and Some in every case that has, on both paths.          *)
C3_ResultSetByRun ==
    /\ \A f \in 1..Len(all_tests) : \A k \in 1..Len(all_tests[f].tests) :
          all_tests[f].tests[k].result = None
    /\ \A k \in 1..Len(test_cases) : test_cases[k].result = None
    /\ \A i \in Waiting \cup InFlight : Unwrap(handles[i].tc).result = None
    /\ \A i \in Finished : IsSome(Unwrap(handles[i].tc).result)
    /\ \A k \in 1..Len(results) : IsSome(results[k].result)
    /\ \A k \in 1..Len(all_results) : IsSome(all_results[k].result)

(* run_tests has returned a case that passed and one whose request failed *)
C3_Witness ==
    /\ epc = "returned"
    /\ \E i, j \in 1..Len(results) :
          /\ results[i].result = Some(Passed)
          /\ results[j].result # Some(Passed)
          /\ Unwrap(results[j].result).errors[1].path = "request"

Authored(tc) == <<tc.name, tc.request, tc.assertions>>
Count(seq, v) == Cardinality({k \in 1..Len(seq) : seq[k] = v})

(* C4: the returned list holds the cases of the units that did not panic,  *)
(* each once, and nothing else.                                            *)
C4_ReturnsUnpanicked ==
    epc = "returned" =>
        /\ Finished \cup Panicked = 1..Len(test_cases)
        /\ Len(results) = Len(test_cases) - Cardinality(Panicked)
        /\ \A i \in Finished :
              /\ Authored(Unwrap(handles[i].tc)) = Authored(test_cases[i])
              /\ Count(results, Unwrap(handles[i].tc))
                    = Cardinality({j \in Finished : handles[j].tc = handles[i].tc})
        /\ \A k \in 1..Len(results) : \E i \in Finished : results[k] = Unwrap(handles[i].tc)

(* a unit panicked, a later one did not, and run_tests returned *)
C4_Witness ==
    /\ epc = "returned"
    /\ Len(test_cases) = 3
    /\ \E i \in Panicked : \E j \in Finished : i < j
    /\ Len(results) = 2

-----------------------------------------------------------------------------
(* Properties of TestCase::run, on the single case of SpecCase *)

CaseDone == ut_pc = "done"
CaseSent == Unwrap(ut_outcome)
CaseResult == Unwrap(Unwrap(ut_case).result)
CaseErrors == IF CaseResult.tag = "Failed" THEN CaseResult.errors ELSE <<>>
CaseAssertions == Unwrap(ut_case).assertions

(* C5: when send() fails, the result is Failed with the one failure on    *)
(* path "request" that carries the error's text and no expected or actual. *)
C5_RequestFailure ==
    (CaseDone /\ ~CaseSent.ok) =>
        Unwrap(ut_case).result
            = Some(Failed(<<AssertionFailure("request", None, None, CaseSent.error)>>))

(* a transport error on a case that has two assertions *)
C5_Witness ==
    /\ CaseDone
    /\ ~CaseSent.ok
    /\ CaseSent.error \in TransportErrors
    /\ Len(CaseAssertions) = 2

FailingIdx(assertions, response) ==
    {i \in 1..Len(assertions) : IsSome(check(assertions[i], response))}

NthOf(F, k) == CHOOSE i \in F : Cardinality({j \in F : j <= i}) = k

(* C6: when send() succeeds, the errors are the failures of exactly the    *)
(* failing assertions, one each, in the order of the assertions.           *)
C6_AllAssertionsChecked ==
    (CaseDone /\ CaseSent.ok) =>
        LET response == Unwrap(CaseSent.response)
            F == FailingIdx(CaseAssertions, response)
        IN /\ Len(CaseErrors) = Cardinality(F)
           /\ \A k \in 1..Len(CaseErrors) :
                 CaseErrors[k] = Unwrap(check(CaseAssertions[NthOf(F, k)], response))

(* two assertions failed, on different paths: the second was checked after *)
(* the first had failed                                                    *)
C6_Witness ==
    /\ CaseDone
    /\ CaseSent.ok
    /\ Len(CaseErrors) = 2
    /\ CaseErrors[1].path # CaseErrors[2].path

(* C7: the result is Passed iff send() succeeded and every assertion's     *)
(* check returned Ok; otherwise it is Failed.                              *)
C7_PassedIffAllOk ==
    CaseDone =>
        /\ IsSome(Unwrap(ut_case).result)
        /\ CaseResult.tag \in {"Passed", "Failed"}
        /\ CaseResult.tag = "Passed" <=>
              /\ CaseSent.ok
              /\ \A i \in 1..Len(CaseAssertions) :
                    check(CaseAssertions[i], Unwrap(CaseSent.response)) = Ok

(* a case with two assertions passed *)
C7_Witness ==
    /\ CaseDone
    /\ CaseResult.tag = "Passed"
    /\ Len(CaseAssertions) = 2

(* C8: a Failed result has at least one error, and each error's path is    *)
(* the path of one of the case's assertions or "request".                  *)
C8_FailedHasErrors ==
    (CaseDone /\ CaseResult.tag = "Failed") =>
        /\ Len(CaseResult.errors) >= 1
        /\ \A k \in 1..Len(CaseResult.errors) :
              \/ CaseResult.errors[k].path = "request"
              \/ \E i \in 1..Len(CaseAssertions) :
                    CaseResult.errors[k].path = PathStr(CaseAssertions[i].path)

(* a case failed on an assertion of its own *)
C8_Witness ==
    /\ CaseDone
    /\ CaseSent.ok
    /\ CaseResult.tag = "Failed"
    /\ CaseResult.errors[1].path = "body.missing"

-----------------------------------------------------------------------------
(* Properties of Runner::run_path *)

IsAx(entry) == entry.ax

(* the files discovery finds under the input path, in walk order *)
Discovered ==
    CASE fs.kind = "file" -> fs.entries
      [] fs.kind = "dir" -> SelectSeq(fs.entries, IsAx)
      [] OTHER -> <<>>

AllLoadable == \A k \in 1..Len(Discovered) : load_tests_from_file(Discovered[k]).ok

NothingRun ==
    /\ started = 0
    /\ epc = "idle"
    /\ rlog = <<>>
    /\ all_results = <<>>

(* C9: every discovered file is loaded before the first test runs, and a   *)
(* discovered file that cannot be read or parsed makes the run end in an   *)
(* error with no test run and no renderer call.                            *)
C9_ParseBeforeRun ==
    /\ rpc \in {"begin", "walk", "loaded"} => NothingRun
    /\ rpc = "loaded" =>
          /\ Len(all_tests) = Len(Discovered)
          /\ \A k \in 1..Len(all_tests) :
                all_tests[k].tests = load_tests_from_file(Discovered[k]).tests
    /\ ~AllLoadable =>
          /\ NothingRun
          /\ rpc \in {"begin", "walk", "done"}
          /\ rpc = "done" => (IsSome(ret) /\ ~Unwrap(ret).ok)

(* the last file of a directory fails to parse after a good one was loaded *)
C9_Witness ==
    /\ rpc = "done"
    /\ fs.kind = "dir"
    /\ fs.entries = <<FileTwo, FileBadSyntax>>
    /\ ret = RetErr("Failed to parse input")
    /\ started = 0
    /\ rlog = <<>>

IsTestCall(call) == call.op = "test"

TestCallCases ==
    LET calls == SelectSeq(rlog, IsTestCall)
    IN [k \in 1..Len(calls) |-> Unwrap(calls[k].case)]

(* what the executor has returned and run_path has handed to renderer.test *)
Rendered ==
    all_results \o (IF rpc = "render" THEN SubSeq(results, 1, render_idx - 1) ELSE <<>>)

CallOrder ==
    /\ \A k \in 1..Len(rlog) : rlog[k].op = "start" <=> k = 1
    /\ \A k \in 1..Len(rlog) : rlog[k].op = "summary" => (k = Len(rlog) /\ rpc = "done")
    /\ TestCallCases = Rendered

FullSequence ==
    /\ Len(rlog) = Len(all_results) + 2
    /\ rlog[1].op = "start"
    /\ rlog[Len(rlog)] = CallSummary(all_results)

(* C10 as stated: every run that discovers a file ends with the renderer   *)
(* having seen start, test*, summary.                                      *)
C10_Original ==
    /\ CallOrder
    /\ (rpc = "done" /\ Len(Discovered) >= 1) => FullSequence

(* C10, amended: every run that discovers a file and loads every           *)
(* discovered file ends with the renderer having seen start once and       *)
(* first, test once per case the executor returned, in the order returned, *)
(* and summary once and last.                                              *)
C10_RendererSequence ==
    /\ CallOrder
    /\ (rpc = "done" /\ Len(Discovered) >= 1 /\ AllLoadable) => FullSequence

(* two files, three tests, none lost: start, three test calls, summary *)
C10_Witness ==
    /\ rpc = "done"
    /\ ret = RetOk
    /\ fs.kind = "dir"
    /\ Len(Discovered) = 2
    /\ Len(all_results) = 3
    /\ Len(rlog) = 5

(* the tests of every discovered file, as load_tests_from_file yields them *)
DiscoveredTests ==
    TotalTests([k \in 1..Len(Discovered) |-> load_tests_from_file(Discovered[k])])

IsRequestFailure(tc) ==
    /\ Unwrap(tc.result).tag = "Failed"
    /\ Unwrap(tc.result).errors[1].path = "request"

IsAssertionFailure(tc) ==
    /\ Unwrap(tc.result).tag = "Failed"
    /\ Unwrap(tc.result).errors[1].path # "request"

IsPassed(tc) == Unwrap(tc.result).tag = "Passed"

(* C11: no outcome of a test ends the run: run_path returns an error only  *)
(* before the first test runs, and a run whose files all loaded ends with  *)
(* every test of every file executed, summary called on all the results    *)
(* and Ok returned, whatever mix of passed and failed cases it produced.   *)
C11_FailuresDoNotStopRun ==
    /\ (IsSome(ret) /\ ~Unwrap(ret).ok) => NothingRun
    /\ (rpc = "done" /\ Len(Discovered) >= 1 /\ AllLoadable) =>
          /\ ret = RetOk
          /\ started = DiscoveredTests
          /\ all_tests = <<>>
          /\ rlog[Len(rlog)] = CallSummary(all_results)

(* one run that passed a case, failed an assertion and failed a request *)
C11_Witness ==
    /\ rpc = "done"
    /\ ret = RetOk
    /\ started = 3
    /\ \E k \in 1..Len(all_results) : IsPassed(all_results[k])
    /\ \E k \in 1..Len(all_results) : IsAssertionFailure(all_results[k])
    /\ \E k \in 1..Len(all_results) : IsRequestFailure(all_results[k])
    /\ rlog[Len(rlog)].op = "summary"

IsRegularAx(entry) == entry.ax /\ entry.regular

(* the files the three-way classification says are loaded *)
Classified ==
    CASE fs.kind = "file" /\ fs.entries[1].ax -> fs.entries
      [] fs.kind = "dir" -> SelectSeq(fs.entries, IsRegularAx)
      [] OTHER -> <<>>

Rejected == fs.kind = "other" \/ (fs.kind = "file" /\ ~fs.entries[1].ax)

(* C12: discovery has three outcomes: a regular file with extension "ax"   *)
(* is loaded; a directory is walked and exactly its regular files with     *)
(* extension "ax" are loaded, an entry that is not a regular file never    *)
(* being loaded whatever its name; every other input, a regular file with  *)
(* another extension included, fails with the neither-file-nor-folder      *)
(* error and nothing is loaded or run.                                     *)
C12_Classification ==
    /\ Rejected =>
          /\ all_tests = <<>>
          /\ NothingRun
          /\ rpc = "done" => ret = RetErr("is neither a file nor a folder")
    /\ (~Rejected /\ rpc = "loaded") =>
          /\ Len(all_tests) = Len(Classified)
          /\ \A k \in 1..Len(all_tests) :
                all_tests[k].tests = load_tests_from_file(Classified[k]).tests
    /\ (~Rejected /\ rpc = "done"
           /\ \A k \in 1..Len(Classified) : load_tests_from_file(Classified[k]).ok) =>
          ret = RetOk

(* C13: a directory under which discovery finds no file with extension    *)
(* "ax" makes run_path return Ok with the executor never invoked and no    *)
(* start, test or summary call made on the renderer.                       *)
C13_NoTestsIsOk ==
    (fs.kind = "dir" /\ Len(Discovered) = 0) =>
        /\ NothingRun
        /\ all_tests = <<>>
        /\ rpc = "done" => ret = RetOk

(* a directory holding only files of another extension has been walked *)
C13_Witness ==
    /\ fs.kind = "dir"
    /\ fs.entries = <<FileOtherExt, FileOtherExt>>
    /\ rpc = "done"
    /\ ret = RetOk
    /\ rlog = <<>>
    /\ started = 0

-----------------------------------------------------------------------------
(* Properties of the command line *)

Called(fn) == call_fn = fn /\ IsSome(call_ret)
Returned == Unwrap(call_ret)

(* C14: every integer given for the concurrency level is accepted and      *)
(* clamped into 1..200: below 1 gives 1, above 200 gives 200, and each of  *)
(* 1..200, 200 included, comes through unchanged.                          *)
C14_Clamped ==
    Called("main") =>
        LET n == call_args[1]
        IN /\ Returned.ok
           /\ Returned.n = (IF n < 1 THEN 1 ELSE IF n > 200 THEN 200 ELSE n)

-----------------------------------------------------------------------------
(* Properties of Executor::run_tests at the ends of the range of N *)

Holders == {i \in Units : handles[i].permit}

(* C15: with N = 1 the batch runs fully serialized: never two units inside *)
(* TestCase::run or holding a permit at once, and a unit enters            *)
(* TestCase::run only when every unit that entered before it has left and  *)
(* given its permit back.                                                  *)
C15_SerializedAtOne ==
    /\ [](max_concurrency = 1 =>
            (Cardinality(InFlight) <= 1 /\ Cardinality(Holders) <= 1))
    /\ [][(max_concurrency = 1 /\ started' = started + 1) =>
            (InFlight = {} /\ Holders = {} /\ permits = 1
             /\ started = Cardinality(Finished) + Cardinality(Panicked))]_vars

(* N = 1, three tests: the first is over, the second runs, the third waits *)
C15_Witness ==
    /\ max_concurrency = 1
    /\ Len(handles) = 3
    /\ Cardinality(Finished) = 1
    /\ Cardinality(InFlight) = 1
    /\ Cardinality(Waiting) = 1
    /\ permits = 0

Surplus == max_concurrency - Len(test_cases)

(* C16: with N >= T the permits beyond the first T are never taken and     *)
(* every unit that has not entered TestCase::run has a permit free for it, *)
(* so no unit ever waits for a permit and run_tests steps, and returns,    *)
(* exactly as it does with N = T.                                          *)
C16_SurplusNeverUsed ==
    (epc # "idle" /\ Surplus >= 0) =>
        /\ permits - Surplus >= Cardinality(Waiting) + (Len(test_cases) - Len(handles))
        /\ permits - Surplus = Len(test_cases) - Cardinality(InFlight)
        /\ Waiting # {} => permits > 0

(* N = T + 1, T = 3: all three units in flight at once, one permit idle *)
C16_Witness ==
    /\ Len(test_cases) = 3
    /\ Surplus = 1
    /\ Cardinality(InFlight) = 3
    /\ permits = 1

-----------------------------------------------------------------------------
(* Properties of the assertion engine *)

(* what each key path of each body text of the model holds, written out:  *)
(* the scalar an integer, string or boolean leaf coerces to, nothing for   *)
(* every other path and node.  A number written with a fraction (1.5, 1.0) *)
(* and one beyond i64::MAX are among the nodes that give nothing.          *)
ReferenceLeaf(body, keys) ==
    CASE body = BodyAlice /\ keys = <<"user", "name">> -> Some(VString("alice"))
      [] body = BodyAlice /\ keys = <<"user", "age">> -> Some(VNumber(30))
      [] body = BodyFlags /\ keys = <<"ok">> -> Some(VBool(TRUE))
      [] body = BodyFlags /\ keys = <<"off">> -> Some(VBool(FALSE))
      [] body = BodyFlags /\ keys = <<"id">> -> Some(VNumber(7))
      [] body = BodyFlags /\ keys = <<"name">> -> Some(VString("x"))
      [] body = BodyOdd /\ keys = <<"neg">> -> Some(VNumber(0 - 3))
      [] OTHER -> None

Reference(response, path) ==
    CASE path = <<"status">> -> Some(VNumber(response.status))
      [] path = <<"body">> ->
            IF response.body = None THEN None ELSE Some(VString(response.body[1]))
      [] Len(path) >= 2 /\ path[1] = "body" /\ response.body # None ->
            ReferenceLeaf(response.body[1], Tail(path))
      [] OTHER -> None

(* C17: resolve_path gives, on every response and path, the value of the   *)
(* reference: the status for "status", the body text for "body" when there *)
(* is a body, the coerced leaf for a key path into a JSON body, and        *)
(* nothing in every other case.                                            *)
C17_ResolveMatchesReference ==
    Called("resolve_path") => Returned = Reference(call_args[1], call_args[2])

(* an integer beyond i64::MAX was reached and gave nothing *)
C17_Witness ==
    /\ Called("resolve_path")
    /\ call_args[1].body = Some(BodyOdd)
    /\ call_args[2] = <<"body", "big">>
    /\ Returned = None

CheckedKind(kind) == Called("check") /\ call_args[1].kind = kind
Resolved == resolve_path(call_args[2], call_args[1].path)
PassedCheck == Returned = Ok

(* C18: a Binary Eq assertion passes exactly when the path resolves to the *)
(* expected value, variant and content; a Binary Ne assertion passes       *)
(* exactly when the path resolves to some other value; on a missing path   *)
(* both fail, the failure having no actual and the rendered value as its   *)
(* expected.                                                               *)
C18_BinaryEqNe ==
    CheckedKind("Binary") =>
        LET a == call_args[1]
        IN /\ a.op = "Eq" => (PassedCheck <=> Resolved = Some(a.value))
           /\ a.op = "Ne" => (PassedCheck <=> (IsSome(Resolved) /\ Resolved # Some(a.value)))
           /\ (a.op \in {"Eq", "Ne"} /\ IsNone(Resolved)) =>
                 /\ IsSome(Returned)
                 /\ Returned[1].actual = None
                 /\ Returned[1].expected = Some(ValueToString(a.value))

(* Ne checked on a path the body does not have *)
C18_Witness ==
    /\ CheckedKind("Binary")
    /\ call_args[1] = Binary(<<"body", "missing">>, "Ne", VNumber(7))
    /\ call_args[2].body = Some(BodyFlags)
    /\ IsSome(Returned)
    /\ Returned[1].actual = None
    /\ Returned[1].expected = Some("7")

Ordering == {"Gt", "Lt", "Gte", "Lte"}

Holds(op, x, y) ==
    \/ op = "Gt" /\ x > y
    \/ op = "Lt" /\ x < y
    \/ op = "Gte" /\ ~(x < y)
    \/ op = "Lte" /\ ~(x > y)

C20_InIsSomeEq ==
    CheckedKind("In") =>
        LET a == call_args[1]
            r == call_args[2]
        IN /\ PassedCheck <=>
                (IsSome(Resolved) /\ \E i \in 1..Len(a.values) : Resolved[1] = a.values[i])
           /\ PassedCheck <=>
                \E i \in 1..Len(a.values) : check(Binary(a.path, "Eq", a.values[i]), r) = Ok
           /\ Len(a.values) = 1 =>
                (PassedCheck <=> check(Binary(a.path, "Eq", a.values[1]), r) = Ok)

(* the status matched the second value of the list *)
C20_Witness ==
    /\ CheckedKind("In")
    /\ call_args[1] = In(<<"status">>, <<VNumber(7), VNumber(200)>>)
    /\ call_args[2].status = 200
    /\ PassedCheck

(* C21: a Between assertion passes exactly when the path resolves to a     *)
(* Number, both endpoints are Numbers and the resolved integer is one of   *)
(* lo..hi, both ends included; so it fails on a missing path, on a         *)
(* resolved value or endpoint that is not a Number, and when lo > hi.      *)
C21_BetweenInclusive ==
    CheckedKind("Between") =>
        LET a == call_args[1]
            numeric == a.min.t = "Number" /\ a.max.t = "Number"
        IN /\ PassedCheck <=>
                (numeric /\ Resolved \in {Some(VNumber(n)) : n \in (a.min.n)..(a.max.n)})
           /\ IsNone(Resolved) => (IsSome(Returned) /\ Returned[1].actual = None)
           /\ (numeric /\ a.min.n > a.max.n) => IsSome(Returned)

(* the status equals the upper endpoint, and the assertion passes *)
C21_Witness ==
    /\ CheckedKind("Between")
    /\ call_args[1] = Between(<<"status">>, VNumber(7), VNumber(200))
    /\ call_args[2].status = 200
    /\ PassedCheck

(* C22: an Exists assertion passes exactly when the path resolves to a     *)
(* value of any variant; a Unary assertion passes exactly when the path    *)
(* resolves to Bool(true), and fails on a missing path, on Bool(false) and *)
(* on every Number and String.                                             *)
C22_ExistsAndUnary ==
    /\ CheckedKind("Exists") => (PassedCheck <=> Resolved # None)
    /\ CheckedKind("Unary") =>
          /\ PassedCheck <=> Resolved = Some(VBool(TRUE))
          /\ (Resolved = None \/ Resolved = Some(VBool(FALSE))
                \/ (Resolved # None /\ Resolved[1].t \in {"Number", "String"})) =>
                (IsSome(Returned) /\ Returned[1].expected = Some("true"))

(* a false leaf: the Unary assertion fails and reports what it found *)
C22_Witness ==
    /\ CheckedKind("Unary")
    /\ call_args[1] = Unary(<<"body", "off">>)
    /\ call_args[2].body = Some(BodyFlags)
    /\ IsSome(Returned)
    /\ Returned[1].actual = Some("false")

-----------------------------------------------------------------------------
(* Properties of the request a parsed case sends *)

AuthoredMethod == Unwrap(ut_case).request.method

(* C23: a request that came through the parser is rejected with the        *)
(* invalid-method error, and nothing is sent, exactly when its method      *)
(* token, upper-cased, is not one of GET, POST, PUT, PATCH, DELETE, HEAD,  *)
(* OPTIONS; a token whose upper-cased form is one of them is sent,         *)
(* whatever case it was written in.                                        *)
C23_RejectedIffNotWhitelisted ==
    CaseDone =>
        ((CaseSent = SendErr("Invalid HTTP method: " \o AuthoredMethod))
            <=> (to_uppercase(AuthoredMethod) \notin MethodWhitelist))

-----------------------------------------------------------------------------
(* Properties of the parser *)

(* C24: every assertion the parser produces keeps the invariants of the    *)
(* data model: the list of an In assertion is not empty, and both          *)
(* endpoints of a Between assertion are Numbers.                           *)
C24_ParsedAssertionsWellTyped ==
    (Called("parse_assertion") /\ Returned.ok) =>
        LET a == Unwrap(Returned.v)
        IN /\ a.kind = "In" => a.values # <<>>
           /\ a.kind = "Between" => (a.min.t = "Number" /\ a.max.t = "Number")

-----------------------------------------------------------------------------
(* Properties of the batch as a whole *)

Untouched(i) == handles[i].tc = Some(test_cases[i])

(* C25: a unit writes only the response and the result of its own case:    *)
(* a case is as it was passed in until its own unit settles, a step that   *)
(* changes the case of one unit is a step of that unit and leaves every    *)
(* other unit's case alone, and the name, request and assertions of every  *)
(* settled and every returned case are those passed in.                    *)
C25_NoSharedMutation ==
    /\ [](\A i \in Waiting \cup InFlight : Untouched(i))
    /\ [](\A i \in Finished : Authored(Unwrap(handles[i].tc)) = Authored(test_cases[i]))
    /\ [](\A k \in 1..Len(results) :
            \E i \in Finished : /\ results[k] = Unwrap(handles[i].tc)
                                 /\ Authored(results[k]) = Authored(test_cases[i]))
    /\ [][/\ test_cases' = test_cases
           /\ \A i \in Units :
                 handles'[i].tc # handles[i].tc =>
                    /\ handles[i].pc = "running"
                    /\ handles'[i].pc \in {"finished", "panicked"}
                    /\ \A j \in Units \ {i} : handles'[j] = handles[j]]_vars

(* one unit has stored its response while another is in flight and a third *)
(* still waits, both as they were passed in                                *)
C25_Witness ==
    /\ Len(handles) = 3
    /\ \E i \in Finished : IsSome(Unwrap(handles[i].tc).response)
    /\ \E i \in InFlight : Untouched(i)
    /\ \E i \in Waiting : Untouched(i)

(* the cases of the units joined so far that did not panic, in spawn order *)
RECURSIVE JoinedCases(_)
JoinedCases(n) ==
    IF n = 0 THEN <<>>
    ELSE IF handles[n].pc = "finished"
         THEN Append(JoinedCases(n - 1), Unwrap(handles[n].tc))
         ELSE JoinedCases(n - 1)

RECURSIVE IsSubseq(_, _)
IsSubseq(xs, ys) ==
    IF xs = <<>> THEN TRUE
    ELSE IF ys = <<>> THEN FALSE
    ELSE IF Head(xs) = Head(ys) THEN IsSubseq(Tail(xs), Tail(ys))
    ELSE IsSubseq(xs, Tail(ys))

AuthoredOf(cases) == [k \in 1..Len(cases) |-> Authored(cases[k])]

(* C26: the list run_tests builds and returns is in input order whatever   *)
(* the order of completion: it is the cases of the units awaited so far,   *)
(* in spawn order, less those of the panicked units.                       *)
C26_ResultsInInputOrder ==
    /\ epc = "join" => results = JoinedCases(join_idx - 1)
    /\ epc = "returned" =>
          /\ results = JoinedCases(Len(test_cases))
          /\ Len(results) = Len(test_cases) - Cardinality(Panicked)
          /\ IsSubseq(AuthoredOf(results), AuthoredOf(test_cases))

(* three different cases, the middle one lost to a panic: the first and    *)
(* the last come back, in that order                                       *)
C26_Witness ==
    /\ epc = "returned"
    /\ test_cases = <<parse_test_block(BlockOk), parse_test_block(BlockFlaky),
                      parse_test_block(BlockBadMethod)>>
    /\ Panicked = {2}
    /\ Len(results) = 2
    /\ results[1].name = Some("ok")
    /\ results[2].name = Some("bad")

(* C28: permits are conserved: the free permits and those held by units    *)
(* add up to N in every state, a settled unit holds none whether it        *)
(* finished or panicked, and when run_tests returns every unit has run and *)
(* all N permits are free.                                                 *)
C28_PermitsConserved ==
    epc # "idle" =>
        /\ permits + Cardinality(Holders) = max_concurrency
        /\ permits >= 0
        /\ \A i \in Finished \cup Panicked : ~handles[i].permit
        /\ epc = "returned" =>
              (permits = max_concurrency /\ started = Len(test_cases))

(* N = 1: the first unit panicked, the second still ran, all is returned *)
C28_Witness ==
    /\ max_concurrency = 1
    /\ epc = "returned"
    /\ Len(test_cases) = 2
    /\ handles[1].pc = "panicked"
    /\ handles[2].pc = "finished"
    /\ permits = 1

-----------------------------------------------------------------------------
(* Properties of the order of files in Runner::run_path *)

InFileLoop == rpc \in {"files", "await", "render"}

(* the number of discovered files the loop has taken up so far *)
FilesTaken == Len(Discovered) - Len(all_tests)

RECURSIVE ConcatTests(_)
ConcatTests(files) ==
    IF files = <<>> THEN <<>> ELSE Head(files).tests \o ConcatTests(Tail(files))

(* the tests of the first n discovered files, in discovery order *)
TestsOfFirst(n) == ConcatTests([j \in 1..n |-> load_tests_from_file(Discovered[j])])

(* C27: the files are executed one after another in discovery order: the   *)
(* batch in the executor is the file taken up last, a unit starts only     *)
(* while the runner awaits that batch and when every unit of the earlier   *)
(* files has started and settled and every result of theirs has been       *)
(* handed to renderer.test, at most N tests are in flight in the whole     *)
(* run, and the list given to summary is the per-file result lists put     *)
(* together in file order.                                                 *)
C27_FilesOneAfterAnother ==
    /\ [](Cardinality(InFlight) <= max_concurrency)
    /\ [](rpc \in {"await", "render"} =>
            /\ test_cases = load_tests_from_file(Discovered[FilesTaken]).tests
            /\ Len(handles) <= Len(test_cases)
            /\ \A i \in Finished : Authored(Unwrap(handles[i].tc)) = Authored(test_cases[i])
            /\ started >= Len(TestsOfFirst(FilesTaken - 1))
            /\ started <= Len(TestsOfFirst(FilesTaken)))
    /\ [](InFileLoop =>
            /\ IsSubseq(AuthoredOf(all_results),
                        AuthoredOf(TestsOfFirst(IF rpc = "files" THEN FilesTaken
                                                ELSE FilesTaken - 1)))
            /\ rpc = "files" => (epc = "idle" /\ handles = <<>>
                                   /\ started = Len(TestsOfFirst(FilesTaken))))
    /\ [][started' # started =>
            /\ rpc = "await"
            /\ TestCallCases = all_results]_vars
    /\ [][(rpc = "render" /\ rpc' = "files") =>
            (all_results' = all_results \o results /\ TestCallCases = all_results')]_vars
    /\ [][(rpc = "files" /\ rpc' = "done") =>
            rlog' = Append(rlog, CallSummary(all_results))]_vars

(* the second file's test is in flight; the two results of the first file  *)
(* have been rendered and kept                                             *)
C27_Witness ==
    /\ fs.kind = "dir"
    /\ fs.entries = <<FileTwo, FileOne>>
    /\ rpc = "await"
    /\ FilesTaken = 2
    /\ Cardinality(InFlight) = 1
    /\ Len(all_results) = 2
    /\ Len(rlog) = 3
    /\ started = 3

-----------------------------------------------------------------------------
(* Properties of the response a case keeps *)

CaseResponse == Unwrap(ut_case).response

(* C29: when TestCase::run has returned, the case holds a response exactly *)
(* when send() succeeded: a Passed case and a case failed by its           *)
(* assertions hold the response, which refers back to its request, and the *)
(* response is absent exactly when the result is the one failure made up   *)
(* for the request.                                                        *)
C29_ResponseIffSent ==
    CaseDone =>
        /\ IsSome(CaseResponse) <=> CaseSent.ok
        /\ IsSome(CaseResponse) =>
              /\ CaseResponse = CaseSent.response
              /\ CaseResponse[1].request = Some(Unwrap(ut_case).request)
        /\ IsNone(CaseResponse) <=>
              (CaseResult.tag = "Failed"
               /\ CaseResult.errors = <<AssertionFailure("request", None, None, CaseSent.error)>>)
        /\ (CaseResult.tag = "Passed"
              \/ \E k \in 1..Len(CaseErrors) : CaseErrors[k].expected # None) =>
              IsSome(CaseResponse)

(* a case failed by an assertion keeps the response it was checked on *)
C29_Witness ==
    /\ CaseDone
    /\ CaseResult.tag = "Failed"
    /\ CaseResult.errors[1].path = "status"
    /\ IsSome(CaseResponse)
    /\ CaseResponse[1].status = 404
    /\ IsSome(CaseResponse[1].request)

====
